---- MODULE Spec2Model ----
(***************************************************************************)
(* A model of RazerDeviceManager (src/main/razerdevicemanager.js): the     *)
(* productId normalisation, the catalog match, the feature assembly, the   *)
(* device ordering, the refresh throttle and the device lifecycle.         *)
(*                                                                         *)
(* JavaScript values are tagged records [t, n, s]: t is the type tag,      *)
(* n the number (when t = "number"), s the string as a sequence of         *)
(* one-character strings (when t = "string").  NaN and the infinities are  *)
(* the tag "nan" (typeof 'number', not finite).                            *)
(***************************************************************************)
EXTENDS Integers, Sequences, FiniteSets, TLC

\* ------------------------------------------------------------ bounds
\* Largest product id the normalisation is exercised on.
MaxPid == 300
\* Longest list handed to sortDevices in the sorting specification.
MaxSortLen == 3
\* Devices the hardware layer reports in one snapshot, at most.
MaxDevices == 2
\* Non-throttled refreshes the manager starts, at most.
MaxRefreshes == 2
\* Times the clock advances, at most.
MaxTicks == 2
\* Longest feature list of a profile in the assembly specification.
MaxFeatures == 2
\* Most entries of featuresConfig in the assembly specification.
MaxOverrides == 2

\* ------------------------------------------------------- JS values
Num(v) == [t |-> "number", n |-> v, s |-> <<>>]
Str(cs) == [t |-> "string", n |-> 0, s |-> cs]
Null == [t |-> "null", n |-> 0, s |-> <<>>]
NaN == [t |-> "nan", n |-> 0, s |-> <<>>]
Obj == [t |-> "object", n |-> 0, s |-> <<>>]

\* Number.isFinite(x): a number that is neither NaN nor an infinity.
NumberIsFinite(x) == x.t = "number"

\* ------------------------------------------------------- JS strings
DigitChars == <<"0", "1", "2", "3", "4", "5", "6", "7", "8", "9",
                "a", "b", "c", "d", "e", "f", "g", "x", "z">>
UpperChars == <<"0", "1", "2", "3", "4", "5", "6", "7", "8", "9",
                "A", "B", "C", "D", "E", "F", "G", "X", "Z">>
\* The value of each character of DigitChars as a digit (radix up to 36).
DigitValues == <<0, 1, 2, 3, 4, 5, 6, 7, 8, 9,
                 10, 11, 12, 13, 14, 15, 16, 33, 35>>

IsWhitespace(c) == c \in {" ", "\t", "\n"}

\* String.prototype.toLowerCase, one character.
LowerChar(c) ==
  IF \E i \in 1..Len(UpperChars) : UpperChars[i] = c
  THEN DigitChars[CHOOSE i \in 1..Len(UpperChars) : UpperChars[i] = c]
  ELSE c

toLowerCase(cs) == [i \in 1..Len(cs) |-> LowerChar(cs[i])]

RECURSIVE trimStart(_)
trimStart(cs) ==
  IF cs # <<>> /\ IsWhitespace(Head(cs)) THEN trimStart(Tail(cs)) ELSE cs

RECURSIVE trimEnd(_)
trimEnd(cs) ==
  IF cs # <<>> /\ IsWhitespace(cs[Len(cs)])
  THEN trimEnd(SubSeq(cs, 1, Len(cs) - 1))
  ELSE cs

\* String.prototype.trim
trim(cs) == trimEnd(trimStart(cs))

\* String.prototype.startsWith
startsWith(cs, prefix) ==
  /\ Len(cs) >= Len(prefix)
  /\ SubSeq(cs, 1, Len(prefix)) = prefix

\* The value of c as a digit, 99 when c is no letter or digit.
DigitOf(c) ==
  LET l == LowerChar(c)
  IN IF \E i \in 1..Len(DigitChars) : DigitChars[i] = l
     THEN DigitValues[CHOOSE i \in 1..Len(DigitChars) : DigitChars[i] = l]
     ELSE 99

\* The longest prefix of cs made of digits of the radix.
RECURSIVE DigitPrefix(_, _)
DigitPrefix(cs, radix) ==
  IF cs # <<>> /\ DigitOf(Head(cs)) < radix
  THEN <<Head(cs)>> \o DigitPrefix(Tail(cs), radix)
  ELSE <<>>

RECURSIVE DigitsValue(_, _)
DigitsValue(cs, radix) ==
  IF cs = <<>> THEN 0
  ELSE DigitsValue(SubSeq(cs, 1, Len(cs) - 1), radix) * radix + DigitOf(cs[Len(cs)])

\* parseInt(string, radix) of ECMAScript, for radix 10 and 16: leading
\* whitespace is skipped, a sign is read, with radix 16 a "0x"/"0X" prefix is
\* dropped, then the longest prefix of digits is read; no digit at all is NaN.
parseInt(cs, radix) ==
  LET s1 == trimStart(cs)
      neg == s1 # <<>> /\ Head(s1) = "-"
      s2 == IF s1 # <<>> /\ Head(s1) \in {"-", "+"} THEN Tail(s1) ELSE s1
      s3 == IF radix = 16 /\ Len(s2) >= 2 /\ s2[1] = "0" /\ s2[2] \in {"x", "X"}
            THEN SubSeq(s2, 3, Len(s2))
            ELSE s2
      z == DigitPrefix(s3, radix)
  IN IF z = <<>> THEN NaN
     ELSE Num((IF neg THEN -1 ELSE 1) * DigitsValue(z, radix))

\* ------------------------------------------------- toIntProductId
\* Mutant: every string is read as decimal, the "0x" branch forgotten.
toIntProductIdDecimalOnly(pid) ==
  IF pid.t \in {"null", "undefined"} THEN Null
  ELSE IF pid.t \in {"number", "nan"}
  THEN (IF NumberIsFinite(pid) THEN pid ELSE Null)
  ELSE IF pid.t = "string"
  THEN LET v10 == parseInt(toLowerCase(trim(pid.s)), 10)
       IN IF NumberIsFinite(v10) THEN v10 ELSE Null
  ELSE Null

toIntProductId(pid) ==
  IF pid.t \in {"null", "undefined"} THEN Null
  ELSE IF pid.t \in {"number", "nan"}
  THEN (IF NumberIsFinite(pid) THEN pid ELSE Null)
  ELSE IF pid.t = "string"
  THEN LET s == toLowerCase(trim(pid.s))
       IN IF startsWith(s, <<"0", "x">>)
          THEN LET v == parseInt(s, 16) IN IF NumberIsFinite(v) THEN v ELSE Null
          ELSE LET v10 == parseInt(s, 10) IN IF NumberIsFinite(v10) THEN v10 ELSE Null
  ELSE Null

\* toHex4 and the console.log / console.warn lines (54-57, 69-85, 91, 97-99)
\* only format diagnostics; they change no state and are not modelled.

\* ------------------------------------------------ feature assembly
\* A list that may be null (features, featuresMissing, featuresConfig).
NullList == [isNull |-> TRUE, items |-> <<>>]
ListOf(xs) == [isNull |-> FALSE, items |-> xs]

\* A configuration object is the set of its <<key, value>> properties.  An
\* entry of featuresConfig is the sequence of its own properties in key
\* order, each a <<featureIdentifier, override>> pair.
Undefined == "undefined value"

\* FeatureHelper.getDefaultFeaturesFor(mainType): the built-in descriptor list
\* of a category, made afresh for every instance.
getDefaultFeaturesFor(mainType) ==
  IF mainType = "keyboard"
  THEN << [featureIdentifier |-> "f", configuration |-> {<<"a", 1>>, <<"b", 2>>}],
          [featureIdentifier |-> "g", configuration |-> {<<"a", 1>>}] >>
  ELSE << [featureIdentifier |-> "f", configuration |-> {<<"a", 1>>, <<"b", 2>>}] >>

\* FeatureHelper.createFeatureFrom(featureConfig): one descriptor for one
\* entry of the profile's feature list.
createFeatureFrom(featureConfig) ==
  [featureIdentifier |-> featureConfig.name,
   configuration |-> featureConfig.configuration]

\* Lines 186-193: the base list.
baseFeatures(razerProperties) ==
  IF razerProperties.features.isNull
  THEN getDefaultFeaturesFor(razerProperties.mainType)
  ELSE [i \in 1..Len(razerProperties.features.items) |->
          createFeatureFrom(razerProperties.features.items[i])]

\* Mutant: nothing is removed.
removeMissingKeepsAll(features, featuresMissing) == features

\* Lines 195-202: features.filter(feature => !featuresMissing.some(...)).
removeMissing(features, featuresMissing) ==
  IF featuresMissing.isNull THEN features
  ELSE SelectSeq(features,
         LAMBDA feature :
           ~\E i \in 1..Len(featuresMissing.items) :
              featuresMissing.items[i] = feature.featureIdentifier)

\* Mutant: the override replaces the configuration instead of merging into it.
ObjectAssignReplaces(target, source) == source

\* Object.assign(target, source) on plain objects: the properties of source
\* are written over target's, target's other properties stay.
ObjectAssign(target, source) ==
  {p \in target : \A q \in source : q[1] # p[1]} \cup source

\* features.find(f => f.featureIdentifier === featureIdentifier): the index
\* of the first match, 0 for undefined.
FindFeature(features, featureIdentifier) ==
  LET hits == {k \in 1..Len(features) : features[k].featureIdentifier = featureIdentifier}
  IN IF hits = {} THEN 0 ELSE CHOOSE k \in hits : \A j \in hits : k <= j

\* Mutant: an override that finds no descriptor makes one.
overrideFeatureAdds(features, featureConfig) ==
  LET featureIdentifier == IF featureConfig = <<>> THEN Undefined ELSE featureConfig[1][1]
      overriddenFeatureConfig == IF featureConfig = <<>> THEN {} ELSE featureConfig[1][2]
      k == FindFeature(features, featureIdentifier)
  IN IF k = 0
     THEN Append(features, [featureIdentifier |-> featureIdentifier,
                            configuration |-> overriddenFeatureConfig])
     ELSE [features EXCEPT ![k].configuration = ObjectAssign(@, overriddenFeatureConfig)]

\* The body of the forEach of lines 206-214 for one entry of featuresConfig:
\* Object.keys(featureConfig)[0] and Object.values(featureConfig)[0] are the
\* entry's first property; the first descriptor found is changed in place.
overrideFeature(features, featureConfig) ==
  LET featureIdentifier == IF featureConfig = <<>> THEN Undefined ELSE featureConfig[1][1]
      overriddenFeatureConfig == IF featureConfig = <<>> THEN {} ELSE featureConfig[1][2]
      k == FindFeature(features, featureIdentifier)
  IN IF k = 0 THEN features
     ELSE [features EXCEPT ![k].configuration = ObjectAssign(@, overriddenFeatureConfig)]

\* The feature list after each entry of featuresConfig, in order.
RECURSIVE overrideSteps(_, _)
overrideSteps(features, entries) ==
  IF entries = <<>> THEN <<>>
  ELSE <<overrideFeature(features, Head(entries))>>
         \o overrideSteps(overrideFeature(features, Head(entries)), Tail(entries))

\* Lines 186-215: razerDeviceProperties.features after the base list, after
\* the removal, and after each entry of featuresConfig.
featureSteps(razerProperties) ==
  LET base == baseFeatures(razerProperties)
      kept == removeMissing(base, razerProperties.featuresMissing)
  IN <<base, kept>>
       \o (IF razerProperties.featuresConfig.isNull THEN <<>>
           ELSE overrideSteps(kept, razerProperties.featuresConfig.items))

\* razerDeviceProperties.features as the instance receives it (line 217).
assembledFeatures(razerProperties) ==
  featureSteps(razerProperties)[Len(featureSteps(razerProperties))]

\* ------------------------------------------------------ the catalog
\* Device names are sequences of UTF-16 code units, which is what the
\* comparison of two JavaScript strings with < and > reads.
NameA == <<65>>
NameB == <<66>>
NameLowerA == <<97>>
NameAB == <<65, 66>>

\* The device profiles require.context('../devices') yields: the JSON files
\* are data outside the manager, so the model fixes a small catalog.  Entry 5
\* repeats the productId of entry 1; entry 4 has a mainType that is no
\* RazerDeviceType.
DeviceJson ==
  << [name |-> NameB, productId |-> <<"0", "x", "0", "0", "C", "7">>, mainType |-> "mouse",
      features |-> NullList, featuresMissing |-> NullList, featuresConfig |-> NullList],
     [name |-> NameA, productId |-> <<"0", "x", "0", "0", "4", "3">>, mainType |-> "keyboard",
      features |-> NullList, featuresMissing |-> ListOf(<<"g">>),
      featuresConfig |-> ListOf(<< <<<<"f", {<<"b", 3>>}>>>> >>)],
     [name |-> NameA, productId |-> <<"0", "x", "0", "1", "0", "1">>, mainType |-> "keyboard",
      features |-> ListOf(<<[name |-> "g", configuration |-> {}]>>),
      featuresMissing |-> NullList, featuresConfig |-> NullList],
     [name |-> NameLowerA, productId |-> <<"0", "x", "0", "1", "2", "c">>, mainType |-> "speaker",
      features |-> NullList, featuresMissing |-> NullList, featuresConfig |-> NullList],
     [name |-> NameAB, productId |-> <<"0", "x", "0", "0", "c", "7">>, mainType |-> "headphone",
      features |-> NullList, featuresMissing |-> NullList, featuresConfig |-> NullList] >>

\* getAllRazerDeviceConfigurations: productId is parsed from its hex string.
getAllRazerDeviceConfigurations ==
  [k \in 1..Len(DeviceJson) |->
     [name |-> DeviceJson[k].name,
      productId |-> parseInt(DeviceJson[k].productId, 16),
      mainType |-> DeviceJson[k].mainType,
      features |-> DeviceJson[k].features,
      featuresMissing |-> DeviceJson[k].featuresMissing,
      featuresConfig |-> DeviceJson[k].featuresConfig]]

\* this.razerConfigDevices, set once by the constructor.
razerConfigDevices == getAllRazerDeviceConfigurations

\* a === b on numbers: NaN equals nothing.
StrictEq(a, b) == a.t # "nan" /\ b.t # "nan" /\ a = b

\* razerConfigDevices.find(d => d.productId === foundProductId): the index of
\* the first match, 0 for undefined.
FindConfig(foundProductId) ==
  LET hits == {k \in 1..Len(razerConfigDevices) :
                 StrictEq(razerConfigDevices[k].productId, foundProductId)}
  IN IF hits = {} THEN 0 ELSE CHOOSE k \in hits : \A j \in hits : k <= j

\* ----------------------------------------------------- sortDevices
deviceOrder ==
  <<"keyboard", "mouse", "mousedock", "mousemat", "egpu", "headphone", "accessory">>

\* Array.prototype.indexOf: the 0-based index of the first element equal to x,
\* -1 when there is none.
indexOf(arr, x) ==
  IF \E i \in 1..Len(arr) : arr[i] = x
  THEN (CHOOSE i \in 1..Len(arr) : arr[i] = x /\ \A j \in 1..(i - 1) : arr[j] # x) - 1
  ELSE -1

\* a < b on two strings: lexicographic on code units, a proper prefix first.
RECURSIVE StrLess(_, _)
StrLess(a, b) ==
  IF b = <<>> THEN FALSE
  ELSE IF a = <<>> THEN TRUE
  ELSE IF Head(a) # Head(b) THEN Head(a) < Head(b)
  ELSE StrLess(Tail(a), Tail(b))

\* Mutant: the comparator ignores the names.
CompareDevicesTypeOnly(deviceA, deviceB) ==
  indexOf(deviceOrder, deviceA.mainType) - indexOf(deviceOrder, deviceB.mainType)

\* The comparator handed to devices.sort.
CompareDevices(deviceA, deviceB) ==
  LET mainTypeAOrder == indexOf(deviceOrder, deviceA.mainType)
      mainTypeBOrder == indexOf(deviceOrder, deviceB.mainType)
  IN IF mainTypeAOrder = mainTypeBOrder
     THEN (IF StrLess(deviceA.name, deviceB.name) THEN -1
           ELSE IF StrLess(deviceB.name, deviceA.name) THEN 1
           ELSE 0)
     ELSE mainTypeAOrder - mainTypeBOrder

\* Array.prototype.sort is stable (ECMAScript 2019): an insertion sort that
\* puts each element behind the elements that compare less than or equal.
RECURSIVE InsertSorted(_, _)
InsertSorted(sorted, d) ==
  IF sorted = <<>> THEN <<d>>
  ELSE IF CompareDevices(sorted[Len(sorted)], d) <= 0 THEN Append(sorted, d)
  ELSE Append(InsertSorted(SubSeq(sorted, 1, Len(sorted) - 1), d), sorted[Len(sorted)])

RECURSIVE SortFrom(_, _)
SortFrom(sorted, rest) ==
  IF rest = <<>> THEN sorted
  ELSE SortFrom(InsertSorted(sorted, Head(rest)), Tail(rest))

sortDevices(devices) == SortFrom(<<>>, devices)

\* -------------------------------------------------------- variables
VARIABLES
  \* the manager's fields
  addon, activeRazerDevices, lastRefresh,
  \* the environment: the clock, the refreshes in flight, the last step taken
  now, inflight, started, ev,
  \* the normalisation specification
  pidV, pidRep, pidIn, pidOut, pidMatch, pidDone,
  \* the sorting specification
  sortIn, sortOut, sortDone,
  \* the assembly specification
  featIn, featSteps, featOut, featDone

mgrVars == <<addon, activeRazerDevices, lastRefresh, now, inflight, started, ev>>
pidVars == <<pidV, pidRep, pidIn, pidOut, pidMatch, pidDone>>
sortVars == <<sortIn, sortOut, sortDone>>
featVars == <<featIn, featSteps, featOut, featDone>>
vars == <<mgrVars, pidVars, sortVars, featVars>>

\* ------------------------------------- the productId representations
\* What the hardware layer may report for the product id v.
RECURSIVE ToDigits(_, _, _)
ToDigits(v, radix, chars) ==
  IF v < radix THEN <<chars[v + 1]>>
  ELSE Append(ToDigits(v \div radix, radix, chars), chars[(v % radix) + 1])

RECURSIVE PadStart(_, _, _)
PadStart(cs, width, c) == IF Len(cs) >= width THEN cs ELSE PadStart(<<c>> \o cs, width, c)

ValidReps == {"number", "hex4Upper", "hexLower", "hexUpperPrefix", "decimal", "decimalSpaced"}
InvalidReps == {"null", "nan", "empty", "letters", "hexNoDigits", "object"}

RawPid(rep, v) ==
  CASE rep = "number" -> Num(v)
    [] rep = "hex4Upper" -> Str(<<"0", "x">> \o PadStart(ToDigits(v, 16, UpperChars), 4, "0"))
    [] rep = "hexLower" -> Str(<<"0", "x">> \o ToDigits(v, 16, DigitChars))
    [] rep = "hexUpperPrefix" -> Str(<<" ", "0", "X">> \o ToDigits(v, 16, UpperChars))
    [] rep = "decimal" -> Str(ToDigits(v, 10, DigitChars))
    [] rep = "decimalSpaced" -> Str(<<" ">> \o PadStart(ToDigits(v, 10, DigitChars), 4, "0") \o <<" ">>)
    [] rep = "null" -> Null
    [] rep = "nan" -> NaN
    [] rep = "empty" -> Str(<<>>)
    [] rep = "letters" -> Str(<<"z", "g">>)
    [] rep = "hexNoDigits" -> Str(<<"0", "x", "z">>)
    [] rep = "object" -> Obj

\* --------------------------------------- the manager's idle state
\* The fields after the constructor (lines 18-27).
NullDevices == [isNull |-> TRUE, devices |-> <<>>]
Devices(ds) == [isNull |-> FALSE, devices |-> ds]

NoPrior == <<"other", 0, "", TRUE>>

NoEvent ==
  [op |-> "none", id |-> 0, outcome |-> "", calls |-> <<>>, ret |-> <<>>,
   before |-> [isNull |-> TRUE, devices |-> <<>>], lastBefore |-> 0, at |-> 0,
   prior |-> NoPrior, opened |-> FALSE, openedBefore |-> FALSE]

MgrIdle ==
  /\ addon = "addon"
  /\ activeRazerDevices = NullDevices
  /\ lastRefresh = 0
  /\ now = 0
  /\ inflight = <<>>
  /\ started = 0
  /\ ev = NoEvent

PidIdle ==
  /\ pidV = 0
  /\ pidRep = "number"
  /\ pidIn = Null
  /\ pidOut = Null
  /\ pidMatch = 0
  /\ pidDone = FALSE

SortIdle ==
  /\ sortIn = <<>>
  /\ sortOut = <<>>
  /\ sortDone = FALSE

NoProperties ==
  [name |-> <<>>, productId |-> 0, internalId |-> 0, mainType |-> "",
   features |-> NullList, featuresMissing |-> NullList, featuresConfig |-> NullList]

FeatIdle ==
  /\ featIn = NoProperties
  /\ featSteps = <<>>
  /\ featOut = <<>>
  /\ featDone = FALSE

\* --------------------------- the normalisation specification, SpecPid
InitPid ==
  /\ MgrIdle
  /\ SortIdle
  /\ FeatIdle
  /\ pidV \in 0..MaxPid
  /\ pidRep \in ValidReps \cup InvalidReps
  /\ pidIn = RawPid(pidRep, pidV)
  /\ pidOut = Null
  /\ pidMatch = 0
  /\ pidDone = FALSE

\* Lines 88-95 on one discovered device: normalise, then look the profile up.
NormalizeAndMatch ==
  /\ ~pidDone
  /\ pidOut' = toIntProductId(pidIn)
  /\ pidMatch' = (IF NumberIsFinite(toIntProductId(pidIn))
                  THEN FindConfig(toIntProductId(pidIn))
                  ELSE 0)
  /\ pidDone' = TRUE
  /\ UNCHANGED <<pidV, pidRep, pidIn, mgrVars, sortVars, featVars>>

NextPid == NormalizeAndMatch

SpecPid == InitPid /\ [][NextPid]_vars

\* ------------------------------- the sorting specification, SpecSort
\* The categories and names of the instances sorted: every RazerDeviceType and
\* one category that is none; names that differ in case and by a prefix.
SortTypes == {deviceOrder[k] : k \in 1..Len(deviceOrder)} \cup {"speaker"}
SortNames == {NameA, NameAB, NameLowerA}

\* An instance as sortDevices reads it; internalId is the discovery position.
SortInput(kinds) ==
  [i \in 1..Len(kinds) |->
     [name |-> kinds[i][2], mainType |-> kinds[i][1], internalId |-> i]]

InitSort ==
  /\ MgrIdle
  /\ PidIdle
  /\ FeatIdle
  /\ \E n \in 0..MaxSortLen : \E kinds \in [1..n -> SortTypes \X SortNames] :
       sortIn = SortInput(kinds)
  /\ sortOut = <<>>
  /\ sortDone = FALSE

SortApply ==
  /\ ~sortDone
  /\ sortOut' = sortDevices(sortIn)
  /\ sortDone' = TRUE
  /\ UNCHANGED <<sortIn, mgrVars, pidVars, featVars>>

NextSort == SortApply

SpecSort == InitSort /\ [][NextSort]_vars

\* ------------------------------------------- the manager, Spec
\* The throttle window of refreshRazerDevices, in milliseconds.
RefreshThrottleMs == 2000
\* The clock advances in half windows; it starts a full window after the
\* epoch (new Date().getTime() is far beyond 2000 on any real clock).
TickMs == RefreshThrottleMs \div 2
StartMs == RefreshThrottleMs

\* What addon.getAllDevices() may report: internalDeviceId is the position in
\* the list; the productId is a number, a hex string, a decimal string that
\* matches no profile, or null.
FoundPids ==
  { Num(199),
    Str(<<"0", "x", "0", "0", "4", "3">>),
    Str(<<"7">>),
    Null }

Snapshot(pids) ==
  [i \in 1..Len(pids) |-> [internalDeviceId |-> i, productId |-> pids[i]]]

\* The class the switch of createRazerDeviceFrom selects (lines 151-175).
DeviceClass(mainType) ==
  CASE mainType = "keyboard" -> "RazerDeviceKeyboard"
    [] mainType = "mouse" -> "RazerDeviceMouse"
    [] mainType = "mousedock" -> "RazerDeviceMouseDock"
    [] mainType = "mousemat" -> "RazerDeviceMouseMat"
    [] mainType = "egpu" -> "RazerDeviceEgpu"
    [] mainType = "headphone" -> "RazerDeviceHeadphone"
    [] mainType = "accessory" -> "RazerDeviceAccessory"
    [] OTHER -> "RazerDevice"

\* createRazerDeviceFrom: the instance `new device(...)` returns, with the
\* properties of lines 177-215; obj is the identity of the new object,
\* <<refresh, position>>.
createRazerDeviceFrom(razerProperties, obj) ==
  [name |-> razerProperties.name,
   productId |-> razerProperties.productId,
   internalId |-> razerProperties.internalId,
   mainType |-> razerProperties.mainType,
   features |-> assembledFeatures(razerProperties),
   class |-> DeviceClass(razerProperties.mainType),
   obj |-> obj]

NoDevice ==
  [name |-> <<>>, productId |-> 0, internalId |-> 0, mainType |-> "",
   features |-> <<>>, class |-> "", obj |-> <<0, 0>>]

\* ------------------------------ the assembly specification, SpecFeat
\* The profiles createRazerDeviceFrom is exercised on: feature lists with
\* repeated identifiers, removals, and featuresConfig entries with one
\* property, with two, and with none.
FeatureIds == {"f", "g"}
FeatureConfigs ==
  {[name |-> id, configuration |-> c] :
     id \in FeatureIds, c \in {{<<"a", 1>>, <<"b", 2>>}, {}}}
MissingLists ==
  {NullList, ListOf(<<>>), ListOf(<<"f">>), ListOf(<<"g">>), ListOf(<<"f", "g">>)}
Overrides == {{<<"b", 3>>}, {<<"a", 2>>, <<"c", 1>>}, {}}
ConfigEntries ==
  {<<<<id, o>>>> : id \in FeatureIds, o \in Overrides}
    \cup {<<>>, << <<"f", {<<"b", 3>>}>>, <<"g", {<<"b", 3>>}>> >>}

InitFeat ==
  /\ MgrIdle
  /\ PidIdle
  /\ SortIdle
  /\ \E mainType \in {"keyboard", "mouse"} :
     \E features \in {NullList} \cup
                     {ListOf(fs) : fs \in UNION {[1..n -> FeatureConfigs] : n \in 0..MaxFeatures}} :
     \E featuresMissing \in MissingLists :
     \E featuresConfig \in {NullList} \cup
                     {ListOf(es) : es \in UNION {[1..n -> ConfigEntries] : n \in 0..MaxOverrides}} :
       featIn = [name |-> NameA, productId |-> 67, internalId |-> 1,
                 mainType |-> mainType, features |-> features,
                 featuresMissing |-> featuresMissing, featuresConfig |-> featuresConfig]
  /\ featSteps = <<>>
  /\ featOut = <<>>
  /\ featDone = FALSE

\* One call of createRazerDeviceFrom: the instance's feature list, and the
\* list after each stage of lines 186-215.
CreateDevice ==
  /\ ~featDone
  /\ featSteps' = featureSteps(featIn)
  /\ featOut' = createRazerDeviceFrom(featIn, <<1, 1>>).features
  /\ featDone' = TRUE
  /\ UNCHANGED <<featIn, mgrVars, pidVars, sortVars>>

NextFeat == CreateDevice

SpecFeat == InitFeat /\ [][NextFeat]_vars

\* ------------------------------------------ the manager, continued
\* Mutant: a device without a profile makes its promise reject.
DevicePromiseNoMatchRejects(foundDevice, obj) ==
  LET foundProductId == toIntProductId(foundDevice.productId)
      k == FindConfig(foundProductId)
  IN IF ~NumberIsFinite(foundProductId) THEN [state |-> "null", device |-> NoDevice]
     ELSE IF k = 0 THEN [state |-> "rejected", device |-> NoDevice]
     ELSE [state |-> "pending",
           device |-> createRazerDeviceFrom(
                        [name |-> razerConfigDevices[k].name,
                         productId |-> foundProductId.n,
                         internalId |-> foundDevice.internalDeviceId,
                         mainType |-> razerConfigDevices[k].mainType,
                         features |-> razerConfigDevices[k].features,
                         featuresMissing |-> razerConfigDevices[k].featuresMissing,
                         featuresConfig |-> razerConfigDevices[k].featuresConfig],
                        obj)]

\* The promise the async callback of foundDevices.map returns for one found
\* device (lines 87-116): resolved with null when the device is skipped,
\* otherwise the pending promise of the new instance's init().
DevicePromise(foundDevice, obj) ==
  LET foundProductId == toIntProductId(foundDevice.productId)
      k == FindConfig(foundProductId)
  IN IF ~NumberIsFinite(foundProductId) THEN [state |-> "null", device |-> NoDevice]
     ELSE IF k = 0 THEN [state |-> "null", device |-> NoDevice]
     ELSE [state |-> "pending",
           device |-> createRazerDeviceFrom(
                        [name |-> razerConfigDevices[k].name,
                         productId |-> foundProductId.n,
                         internalId |-> foundDevice.internalDeviceId,
                         mainType |-> razerConfigDevices[k].mainType,
                         features |-> razerConfigDevices[k].features,
                         featuresMissing |-> razerConfigDevices[k].featuresMissing,
                         featuresConfig |-> razerConfigDevices[k].featuresConfig],
                        obj)]

\* Mutant: each init() is awaited before the next device is looked at, so
\* that a device behind a matching one waits for it.
devicePromisesSequential(foundDevices, r) ==
  [i \in 1..Len(foundDevices) |->
     IF \E j \in 1..(i - 1) : DevicePromise(foundDevices[j], <<r, j>>).state = "pending"
     THEN [state |-> (IF DevicePromise(foundDevices[i], <<r, i>>).state = "pending"
                      THEN "waiting" ELSE "null"),
           device |-> DevicePromise(foundDevices[i], <<r, i>>).device]
     ELSE DevicePromise(foundDevices[i], <<r, i>>)]

\* foundDevices.map(async foundDevice => ...) of refresh r (lines 87-116).
\* The callback has no await: map runs every callback to its return, init()
\* call included, before Promise.all is reached.
devicePromises(foundDevices, r) ==
  [i \in 1..Len(foundDevices) |-> DevicePromise(foundDevices[i], <<r, i>>)]

Call(f, id) == <<f, id>>

\* Mutant: the hardware layer is queried before the old set is torn down.
refreshCallsEnumFirst(closeCalls, enumCalls, initCalls) ==
  enumCalls \o closeCalls \o initCalls

\* The calls of one non-throttled refresh in program order: closeDevices
\* (line 65), getAllDevices (line 67), then the init() calls of the map.
refreshCalls(closeCalls, enumCalls, initCalls) ==
  closeCalls \o enumCalls \o initCalls

\* Mutant: closeDevices clears the set although closeAllDevices threw.
closeDevicesOnClearsOnThrow(active, adn, closeOk) ==
  IF ~active.isNull
  THEN IF adn = "null"
       THEN [active |-> active, calls |-> <<>>, threw |-> TRUE]
       ELSE [active |-> NullDevices, calls |-> <<Call("closeAllDevices", 0)>>,
             threw |-> ~closeOk]
  ELSE [active |-> active, calls |-> <<>>, threw |-> FALSE]

\* Mutant: closeDevices forgets to clear the active set.
closeDevicesOnKeepsSet(active, adn, closeOk) ==
  IF ~active.isNull
  THEN IF adn = "null"
       THEN [active |-> active, calls |-> <<>>, threw |-> TRUE]
       ELSE [active |-> active, calls |-> <<Call("closeAllDevices", 0)>>, threw |-> ~closeOk]
  ELSE [active |-> active, calls |-> <<>>, threw |-> FALSE]

\* closeDevices (lines 240-245) on the fields (active, adn); closeOk says
\* whether addon.closeAllDevices() returns normally.  A released addon (null)
\* makes this.addon.closeAllDevices a TypeError before any call is made.
closeDevicesOn(active, adn, closeOk) ==
  IF ~active.isNull
  THEN IF adn = "null"
       THEN [active |-> active, calls |-> <<>>, threw |-> TRUE]
       ELSE IF ~closeOk
       THEN [active |-> active, calls |-> <<Call("closeAllDevices", 0)>>, threw |-> TRUE]
       ELSE [active |-> NullDevices, calls |-> <<Call("closeAllDevices", 0)>>, threw |-> FALSE]
  ELSE [active |-> active, calls |-> <<>>, threw |-> FALSE]

\* Mutant: destroy closes the hardware layer whatever the active set is.
destroyOnAlwaysCloses(active, adn, closeOk) ==
  LET destroys == IF ~active.isNull
                  THEN [i \in 1..Len(active.devices) |->
                          Call("destroy", active.devices[i].internalId)]
                  ELSE <<>>
  IN IF adn = "null"
     THEN [active |-> active, addon |-> adn, calls |-> destroys, threw |-> TRUE]
     ELSE [active |-> IF closeOk THEN NullDevices ELSE active,
           addon |-> IF closeOk THEN "null" ELSE adn,
           calls |-> Append(destroys, Call("closeAllDevices", 0)),
           threw |-> ~closeOk]

\* Mutant: destroy closes the hardware layer before it destroys the instances.
destroyOnClosesFirst(active, adn, closeOk) ==
  LET destroys == IF ~active.isNull
                  THEN [i \in 1..Len(active.devices) |->
                          Call("destroy", active.devices[i].internalId)]
                  ELSE <<>>
      c == closeDevicesOn(active, adn, closeOk)
  IN [active |-> c.active,
      addon |-> IF c.threw THEN adn ELSE "null",
      calls |-> IF c.threw THEN c.calls ELSE c.calls \o destroys,
      threw |-> c.threw]

\* destroy (lines 247-257) on the fields.
destroyOn(active, adn, closeOk) ==
  LET destroys == IF ~active.isNull
                  THEN [i \in 1..Len(active.devices) |->
                          Call("destroy", active.devices[i].internalId)]
                  ELSE <<>>
      c == closeDevicesOn(active, adn, closeOk)
  IN [active |-> c.active,
      addon |-> IF c.threw THEN adn ELSE "null",
      calls |-> destroys \o c.calls,
      threw |-> c.threw]

\* getByInternalId (lines 236-238): null.find is a TypeError.
getByInternalIdOn(active, internalId) ==
  IF active.isNull THEN [threw |-> TRUE, found |-> FALSE, device |-> NoDevice]
  ELSE LET hits == {i \in 1..Len(active.devices) : active.devices[i].internalId = internalId}
       IN IF hits = {} THEN [threw |-> FALSE, found |-> FALSE, device |-> NoDevice]
          ELSE [threw |-> FALSE, found |-> TRUE,
                device |-> active.devices[CHOOSE i \in hits : \A j \in hits : i <= j]]

\* Mutant: the throttle compares with the last start alone, the window forgotten.
ThrottledNoWindow(t, last) == t < last

\* The throttle test of line 60.
Throttled(t, last) == t < last + RefreshThrottleMs

\* devices.filter(device => device !== null) over the settled promises.
RECURSIVE FilterNotNull(_)
FilterNotNull(slots) ==
  IF slots = <<>> THEN <<>>
  ELSE IF Head(slots).state = "null" THEN FilterNotNull(Tail(slots))
  ELSE <<Head(slots).device>> \o FilterNotNull(Tail(slots))

\* Promise.all(devicePromises): rejected as soon as one promise is rejected,
\* fulfilled once all are fulfilled, pending otherwise.
PromiseAll(slots) ==
  IF \E i \in 1..Len(slots) : slots[i].state = "rejected" THEN "rejected"
  ELSE IF \A i \in 1..Len(slots) : slots[i].state \in {"null", "resolved"} THEN "resolved"
  ELSE "pending"

\* Mutant: the new instances are merged into the previous active set.
SettledDevicesMerged(slots) ==
  Devices(sortDevices(activeRazerDevices.devices \o FilterNotNull(slots)))

\* The then-chain of lines 118-122 once Promise.all is fulfilled.
SettledDevices(slots) == Devices(sortDevices(FilterNotNull(slots)))

\* What the last step did: the operation, its argument, how it ended, the
\* calls it made on the hardware layer and on instances, in order, the fields
\* before it, the clock at a refreshRazerDevices call, and (prior), for a
\* closeDevices call, whether the step before it was a closeDevices call too,
\* with the number of calls that one made, how it ended and whether it found
\* the active set null; whether some init() has been called since the last
\* addon.closeAllDevices call (opened), after this step and before it.
Event(op, id, outcome, calls, ret) ==
  [op |-> op, id |-> id, outcome |-> outcome, calls |-> calls, ret |-> ret,
   before |-> activeRazerDevices, lastBefore |-> lastRefresh,
   at |-> IF op = "refreshRazerDevices" THEN now ELSE 0,
   prior |-> IF op = "closeDevices" /\ ev.op = "closeDevices"
             THEN <<"closeDevices", Len(ev.calls), ev.outcome, ev.before.isNull>>
             ELSE NoPrior,
   opened |-> IF \E i \in 1..Len(calls) : calls[i][1] = "init" THEN TRUE
              ELSE IF \E i \in 1..Len(calls) : calls[i][1] = "closeAllDevices" THEN FALSE
              ELSE ev.opened,
   openedBefore |-> ev.opened]

Init ==
  /\ addon = "addon"
  /\ activeRazerDevices = NullDevices
  /\ lastRefresh = 0
  /\ now = StartMs
  /\ inflight = <<>>
  /\ started = 0
  /\ ev = NoEvent
  /\ PidIdle
  /\ SortIdle
  /\ FeatIdle

\* Time passes.
Tick ==
  /\ now < StartMs + MaxTicks * TickMs
  /\ now' = now + TickMs
  /\ UNCHANGED <<addon, activeRazerDevices, lastRefresh, inflight, started, ev,
                 pidVars, sortVars, featVars>>

\* How the hardware layer answers during one call: normally, or with
\* closeAllDevices throwing, or with getAllDevices throwing.
HwAnswers == {"ok", "closeThrows", "enumThrows"}

\* A call of refreshRazerDevices, up to the promise it returns (lines 59-118).
refreshRazerDevices ==
  IF Throttled(now, lastRefresh)
  THEN /\ ev' = Event("refreshRazerDevices", 0, "throttled", <<>>, <<>>)
       /\ UNCHANGED <<addon, activeRazerDevices, lastRefresh, now, inflight, started,
                      pidVars, sortVars, featVars>>
  ELSE \E n \in 0..MaxDevices : \E pids \in [1..n -> FoundPids] : \E hw \in HwAnswers :
         LET snap == Snapshot(pids)
             r == started + 1
             c == closeDevicesOn(activeRazerDevices, addon, hw # "closeThrows")
             enumThrows == addon = "null" \/ hw = "enumThrows"
             enumCalls == IF addon = "null" THEN <<>> ELSE <<Call("getAllDevices", 0)>>
             slots == devicePromises(snap, r)
             inits == FilterNotNull(slots)
             initCalls == [i \in 1..Len(inits) |-> Call("init", inits[i].internalId)]
         IN /\ started < MaxRefreshes
            /\ started' = r
            /\ lastRefresh' = now
            /\ activeRazerDevices' = c.active
            /\ IF c.threw
               THEN /\ inflight' = Append(inflight, [status |-> "rejected", slots |-> <<>>])
                    /\ ev' = Event("refreshRazerDevices", r, "rejected",
                                   refreshCalls(c.calls, <<>>, <<>>), <<>>)
               ELSE IF enumThrows
               THEN /\ inflight' = Append(inflight, [status |-> "rejected", slots |-> <<>>])
                    /\ ev' = Event("refreshRazerDevices", r, "rejected",
                                   refreshCalls(c.calls, enumCalls, <<>>), <<>>)
               ELSE /\ inflight' = Append(inflight, [status |-> "pending", slots |-> slots])
                    /\ ev' = Event("refreshRazerDevices", r, "pending",
                                   refreshCalls(c.calls, enumCalls, initCalls), snap)
            /\ UNCHANGED <<addon, now, pidVars, sortVars, featVars>>

\* The init() promise of one instance is fulfilled.  The device classes are
\* outside this file; init() is taken to resolve with its instance, which is
\* what the filter and the sort of lines 119-121 read.
InitResolve ==
  \E r \in 1..Len(inflight) : \E i \in 1..Len(inflight[r].slots) :
    /\ inflight[r].status = "pending"
    /\ inflight[r].slots[i].state = "pending"
    /\ inflight' = [inflight EXCEPT ![r].slots[i].state = "resolved"]
    /\ ev' = Event("initResolve", r, "ok", <<>>, i)
    /\ UNCHANGED <<addon, activeRazerDevices, lastRefresh, now, started, pidVars, sortVars, featVars>>

\* The init() promise of one instance is rejected.
InitReject ==
  \E r \in 1..Len(inflight) : \E i \in 1..Len(inflight[r].slots) :
    /\ inflight[r].status = "pending"
    /\ inflight[r].slots[i].state = "pending"
    /\ inflight' = [inflight EXCEPT ![r].slots[i].state = "rejected"]
    /\ ev' = Event("initReject", r, "ok", <<>>, i)
    /\ UNCHANGED <<addon, activeRazerDevices, lastRefresh, now, started, pidVars, sortVars, featVars>>

\* The promise of a refresh settles (lines 118-122): Promise.all is decided
\* and, when fulfilled, the then-chain stores the sorted instances.  The
\* promises of a rejected refresh are followed no further: whatever their
\* init() does later reaches no handler.
RefreshSettle ==
  \E r \in 1..Len(inflight) :
    /\ inflight[r].status = "pending"
    /\ PromiseAll(inflight[r].slots) # "pending"
    /\ inflight' = [inflight EXCEPT ![r] =
                      [status |-> PromiseAll(inflight[r].slots),
                       slots |-> IF PromiseAll(inflight[r].slots) = "resolved"
                                 THEN inflight[r].slots
                                 ELSE <<>>]]
    /\ activeRazerDevices' =
         IF PromiseAll(inflight[r].slots) = "resolved"
         THEN SettledDevices(inflight[r].slots)
         ELSE activeRazerDevices
    /\ ev' = Event("settle", r, PromiseAll(inflight[r].slots), <<>>, inflight[r].slots)
    /\ UNCHANGED <<addon, lastRefresh, now, started, pidVars, sortVars, featVars>>

\* A call of closeDevices.
closeDevices ==
  \E closeOk \in BOOLEAN :
    LET c == closeDevicesOn(activeRazerDevices, addon, closeOk)
    IN /\ activeRazerDevices' = c.active
       /\ ev' = Event("closeDevices", 0, IF c.threw THEN "throw" ELSE "ok", c.calls, <<>>)
       /\ UNCHANGED <<addon, lastRefresh, now, inflight, started, pidVars, sortVars, featVars>>

\* A call of destroy.
destroy ==
  \E closeOk \in BOOLEAN :
    LET d == destroyOn(activeRazerDevices, addon, closeOk)
    IN /\ activeRazerDevices' = d.active
       /\ addon' = d.addon
       /\ ev' = Event("destroy", 0, IF d.threw THEN "throw" ELSE "ok", d.calls, <<>>)
       /\ UNCHANGED <<lastRefresh, now, inflight, started, pidVars, sortVars, featVars>>

\* A call of getByInternalId.
getByInternalId ==
  \E internalId \in 1..MaxDevices :
    LET g == getByInternalIdOn(activeRazerDevices, internalId)
    IN /\ ev' = Event("getByInternalId", internalId,
                      IF g.threw THEN "throw" ELSE IF g.found THEN "found" ELSE "undefined",
                      <<>>, g.device)
       /\ UNCHANGED <<addon, activeRazerDevices, lastRefresh, now, inflight, started,
                      pidVars, sortVars, featVars>>

Next ==
  \/ Tick
  \/ refreshRazerDevices
  \/ InitResolve
  \/ InitReject
  \/ RefreshSettle
  \/ closeDevices
  \/ destroy
  \/ getByInternalId

Spec == Init /\ [][Next]_vars

\* ============================================================ claims
\* What the claims speak of, written from their words.

\* The product ids of the catalog entries, in catalog order.
CatalogIds == <<199, 67, 257, 300, 199>>

\* The first catalog entry with product id v, 0 when there is none.
ExpectedProfile(v) ==
  IF \E k \in 1..Len(CatalogIds) : CatalogIds[k] = v
  THEN CHOOSE k \in 1..Len(CatalogIds) :
         CatalogIds[k] = v /\ \A j \in 1..(k - 1) : CatalogIds[j] # v
  ELSE 0

\* The fixed priority list and the rank of a listed category in it.
Priority ==
  <<"keyboard", "mouse", "mousedock", "mousemat", "egpu", "headphone", "accessory">>
Listed(t) == \E k \in 1..Len(Priority) : Priority[k] = t
Rank(t) == CHOOSE k \in 1..Len(Priority) : Priority[k] = t

\* Name a sorts before name b, case-sensitively: at the first position where
\* they differ a has the smaller code unit, or a is a proper prefix of b.
NameBefore(a, b) ==
  \E k \in 1..(Len(b)) :
    /\ \A j \in 1..(k - 1) : j <= Len(a) /\ a[j] = b[j]
    /\ k - 1 <= Len(a)
    /\ (k > Len(a) \/ a[k] < b[k])

\* d comes before e in the order of the sorting policy for listed categories.
InPolicyOrder(d, e) ==
  \/ Rank(d.mainType) < Rank(e.mainType)
  \/ /\ Rank(d.mainType) = Rank(e.mainType)
     /\ \/ NameBefore(d.name, e.name)
        \/ d.name = e.name /\ d.internalId < e.internalId

IsPermutation(xs, ys) ==
  /\ Len(xs) = Len(ys)
  /\ \E f \in [1..Len(xs) -> 1..Len(xs)] :
       /\ \A i, j \in 1..Len(xs) : i # j => f[i] # f[j]
       /\ \A i \in 1..Len(xs) : ys[f[i]] = xs[i]

InActive(d) ==
  /\ ~activeRazerDevices.isNull
  /\ \E i \in 1..Len(activeRazerDevices.devices) : activeRazerDevices.devices[i] = d

MadeCall(f, id) == \E i \in 1..Len(ev.calls) : ev.calls[i] = <<f, id>>

\* C1: a refreshRazerDevices call made less than 2000 ms after the start of
\* the previous non-throttled call calls neither addon.getAllDevices nor
\* addon.closeAllDevices and leaves activeRazerDevices and lastRefresh as they
\* were.
C1_ThrottledRefreshIsNoOp ==
  (ev.op = "refreshRazerDevices" /\ ev.at - ev.lastBefore < 2000)
    => /\ ev.outcome = "throttled"
       /\ ev.calls = <<>>
       /\ activeRazerDevices = ev.before
       /\ lastRefresh = ev.lastBefore

\* A throttled call happened while a non-empty active set was held.
C1_Witness ==
  /\ ev.op = "refreshRazerDevices"
  /\ ev.at - ev.lastBefore < 2000
  /\ ev.at > ev.lastBefore
  /\ ~activeRazerDevices.isNull
  /\ Len(activeRazerDevices.devices) = 2

\* C2: when exactly one init() of a refresh over N matching devices rejects
\* and the other N-1 resolve, the settled refresh has put the other N-1
\* instances in the active set and left the failing one out.
C2_OneFailureKeepsOthers ==
  (/\ ev.op = "settle"
   /\ Len(ev.ret) >= 2
   /\ \A i \in 1..Len(ev.ret) : ev.ret[i].state \in {"resolved", "rejected"}
   /\ Cardinality({i \in 1..Len(ev.ret) : ev.ret[i].state = "rejected"}) = 1)
    => \A i \in 1..Len(ev.ret) :
         InActive(ev.ret[i].device) <=> ev.ret[i].state = "resolved"

\* C3: getByInternalId(id) returns the active instance whose internalId is
\* id, or a not-found result when there is none, and never throws, in every
\* state of the manager.
C3_GetByInternalIdNeverThrows ==
  ev.op = "getByInternalId"
    => /\ ev.outcome # "throw"
       /\ ev.outcome = "found" <=>
            (~ev.before.isNull /\ \E i \in 1..Len(ev.before.devices) :
               ev.before.devices[i].internalId = ev.id)
       /\ ev.outcome = "found" => ev.ret.internalId = ev.id /\ InActive(ev.ret)

\* C4 as claimed: two closeDevices calls in a row on an active set call
\* addon.closeAllDevices exactly once and leave the set null; closeDevices
\* with no active devices (the set null, or a list of zero instances) calls
\* nothing and changes nothing.  Stated for calls that return normally.
C4_CloseIdempotentAsClaimed ==
  /\ (/\ ev.op = "closeDevices" /\ ev.outcome = "ok"
      /\ ev.prior[1] = "closeDevices" /\ ev.prior[3] = "ok" /\ ~ev.prior[4])
       => ev.prior[2] + Len(ev.calls) = 1 /\ activeRazerDevices.isNull
  /\ (/\ ev.op = "closeDevices" /\ ev.outcome = "ok"
      /\ (ev.before.isNull \/ ev.before.devices = <<>>))
       => ev.calls = <<>> /\ activeRazerDevices = ev.before

\* C4, amended: two closeDevices calls in a row that return normally, on an
\* active set that is not null (a list of zero instances included), call
\* addon.closeAllDevices exactly once and leave the set null; closeDevices
\* on a null active set calls nothing, changes nothing and does not throw; a
\* list of zero instances is closed like any other list.
C4_CloseIdempotent ==
  /\ (/\ ev.op = "closeDevices" /\ ev.outcome = "ok"
      /\ ev.prior[1] = "closeDevices" /\ ev.prior[3] = "ok" /\ ~ev.prior[4])
       => /\ ev.prior[2] + Len(ev.calls) = 1
          /\ activeRazerDevices.isNull
  /\ (ev.op = "closeDevices" /\ ev.before.isNull)
       => /\ ev.outcome = "ok"
          /\ ev.calls = <<>>
          /\ activeRazerDevices = ev.before
  /\ (ev.op = "closeDevices" /\ ev.outcome = "ok" /\ ~ev.before.isNull)
       => /\ ev.calls = <<Call("closeAllDevices", 0)>>
          /\ activeRazerDevices.isNull

\* closeDevices was called twice in a row on a set of two instances.
C4_Witness ==
  /\ ev.op = "closeDevices"
  /\ ev.outcome = "ok"
  /\ ev.prior = <<"closeDevices", 1, "ok", FALSE>>
  /\ ev.calls = <<>>
  /\ started >= 1

\* C5: once a refresh has started, activeRazerDevices is null or the complete
\* sorted result of one single refresh: all the instances that refresh
\* initialized, no instance of another refresh, in the order of the policy.
C5_ActiveSetIsOneRefresh ==
  (started >= 1 /\ ~activeRazerDevices.isNull)
    => \E r \in 1..Len(inflight) :
         /\ inflight[r].status = "resolved"
         /\ \A i \in 1..Len(inflight[r].slots) :
              inflight[r].slots[i].state = "resolved"
                => InActive(inflight[r].slots[i].device)
         /\ \A k \in 1..Len(activeRazerDevices.devices) :
              /\ activeRazerDevices.devices[k].obj[1] = r
              /\ \E i \in 1..Len(inflight[r].slots) :
                   /\ inflight[r].slots[i].state = "resolved"
                   /\ inflight[r].slots[i].device = activeRazerDevices.devices[k]
         /\ \A k, l \in 1..Len(activeRazerDevices.devices) :
              k < l => InPolicyOrder(activeRazerDevices.devices[k],
                                     activeRazerDevices.devices[l])

\* Two refreshes overlapped, both resolved, and the active set holds two
\* instances in an order that differs from the discovery order.
C5_Witness ==
  /\ started = 2
  /\ inflight[1].status = "resolved"
  /\ inflight[2].status = "resolved"
  /\ ~activeRazerDevices.isNull
  /\ Len(activeRazerDevices.devices) = 2
  /\ activeRazerDevices.devices[1].internalId = 2

\* C6: on instances of listed categories sortDevices returns a permutation
\* of its input ordered by category rank, then by case-sensitive name, with
\* instances of the same category and name in their input order.
C6_SortListed ==
  (sortDone /\ \A i \in 1..Len(sortIn) : Listed(sortIn[i].mainType))
    => /\ IsPermutation(sortIn, sortOut)
       /\ \A k, l \in 1..Len(sortOut) : k < l => InPolicyOrder(sortOut[k], sortOut[l])

\* Three listed instances, two of them alike, were reordered.
C6_Witness ==
  /\ sortDone
  /\ Len(sortIn) = 3
  /\ \A i \in 1..3 : Listed(sortIn[i].mainType)
  /\ sortIn[1].mainType = sortIn[2].mainType
  /\ sortIn[1].name = sortIn[2].name
  /\ sortOut[1] = sortIn[3]

\* C7: in the result of sortDevices every instance of a category outside the
\* priority list comes after every instance of a listed category.
C7_UnlistedLast ==
  sortDone
    => \A k, l \in 1..Len(sortOut) :
         (~Listed(sortOut[k].mainType) /\ Listed(sortOut[l].mainType)) => l < k

\* C8 as claimed: destroy() with no devices active (the set null, or a list of
\* zero instances) does not throw and makes no hardware-layer close call.
\* Stated for a hardware layer that does not fail.
C8_DestroyWhenEmptyAsClaimed ==
  (/\ ev.op = "destroy"
   /\ (ev.before.isNull \/ ev.before.devices = <<>>)
   /\ (ev.outcome = "throw" => addon = "null"))
    => ~MadeCall("closeAllDevices", 0)

\* C8, amended: destroy() on a null active set does not throw and makes no
\* hardware-layer close call; on a list of zero instances a destroy() that
\* returns has called addon.closeAllDevices once.
C8_DestroyWhenNull ==
  /\ (ev.op = "destroy" /\ ev.before.isNull)
       => /\ ev.outcome = "ok"
          /\ ev.calls = <<>>
          /\ activeRazerDevices.isNull
          /\ addon = "null"
  /\ (/\ ev.op = "destroy" /\ ev.outcome = "ok"
      /\ ~ev.before.isNull /\ ev.before.devices = <<>>)
       => ev.calls = <<Call("closeAllDevices", 0)>>

\* destroy() was called after a refresh, on a null active set.
C8_Witness ==
  /\ ev.op = "destroy"
  /\ ev.before.isNull
  /\ ev.outcome = "ok"
  /\ started >= 1

\* C9: in a non-throttled refresh a found device whose productId cannot be
\* normalised or equals no catalog productId gets no instance and no init()
\* call; every other found device of the snapshot gets its instance and its
\* init() call; and a refresh is rejected only when some init() rejected, so
\* that with no init() rejected it resolves with every instance it made.
C9_SkippedDeviceIsHarmless ==
  /\ (ev.op = "refreshRazerDevices" /\ ev.outcome = "pending")
       => /\ Len(inflight[ev.id].slots) = Len(ev.ret)
          /\ \A i \in 1..Len(ev.ret) :
               LET pid == toIntProductId(ev.ret[i].productId)
                   profile == IF NumberIsFinite(pid) THEN ExpectedProfile(pid.n) ELSE 0
                   slot == inflight[ev.id].slots[i]
               IN IF profile = 0
                  THEN slot.state = "null" /\ ~MadeCall("init", i)
                  ELSE /\ slot.state = "pending"
                       /\ slot.device.internalId = i
                       /\ slot.device.productId = CatalogIds[profile]
                       /\ slot.device.name = DeviceJson[profile].name
                       /\ MadeCall("init", i)
  /\ ev.op = "settle"
       => /\ ev.outcome = "rejected" <=>
               \E i \in 1..Len(ev.ret) : ev.ret[i].state = "rejected"
          /\ ev.outcome = "resolved" =>
               /\ ~activeRazerDevices.isNull
               /\ \A i \in 1..Len(ev.ret) :
                    ev.ret[i].state # "null" => InActive(ev.ret[i].device)

\* A snapshot of an unusable productId followed by a matching device was
\* refreshed: the second device is being initialized.
C9_Witness ==
  /\ ev.op = "refreshRazerDevices"
  /\ ev.outcome = "pending"
  /\ Len(ev.ret) = 2
  /\ ev.ret[1].productId \in {Null, Str(<<"7">>)}
  /\ inflight[ev.id].slots[2].state = "pending"
  /\ MadeCall("init", 2)

\* C10: the number v, the hex string "0x..." of v and the decimal string of v
\* normalise to the integer v, and so match the same catalog entry.
C10_NormalizeAgrees ==
  (pidDone /\ pidRep \in ValidReps)
    => /\ pidOut = Num(pidV)
       /\ pidMatch = ExpectedProfile(pidV)

\* The hex string "0x00C7" was normalised to 199 and matched the first entry.
C10_Witness ==
  /\ pidDone
  /\ pidIn = Str(<<"0", "x", "0", "0", "C", "7">>)
  /\ pidOut = Num(199)
  /\ pidMatch = 1

\* ------------------------------------------- feature assembly claims
\* The identifiers of a descriptor list, in order.
IdsOf(features) == [k \in 1..Len(features) |-> features[k].featureIdentifier]

\* The identifiers featuresMissing lists (none when it is null).
MissingIds ==
  IF featIn.featuresMissing.isNull THEN {}
  ELSE {featIn.featuresMissing.items[i] : i \in 1..Len(featIn.featuresMissing.items)}

\* The entries of featuresConfig (none when it is null).
ConfigItems == IF featIn.featuresConfig.isNull THEN <<>> ELSE featIn.featuresConfig.items

\* Entry j of featuresConfig has the form {featureIdentifier: override}.
OneProperty(j) == Len(ConfigItems[j]) = 1

\* The feature list before and after entry j of featuresConfig is applied.
BeforeEntry(j) == featSteps[j + 1]
AfterEntry(j) == featSteps[j + 2]

\* C11: removal precedes override: the instance has no descriptor whose
\* identifier is listed in featuresMissing, and a featuresConfig entry for a
\* listed identifier changes nothing in the feature list: the list is the
\* same before and after the entry, and the instance's list is the one the
\* profile without those entries gives.
C11_RemovalPrecedesOverride ==
  featDone
    => /\ \A k \in 1..Len(featOut) : featOut[k].featureIdentifier \notin MissingIds
       /\ \A j \in 1..Len(ConfigItems) :
            (OneProperty(j) /\ ConfigItems[j][1][1] \in MissingIds)
              => AfterEntry(j) = BeforeEntry(j)
       /\ ~featIn.featuresConfig.isNull
            => featOut =
                 assembledFeatures(
                   [featIn EXCEPT !.featuresConfig =
                      ListOf(SelectSeq(ConfigItems,
                               LAMBDA e : ~(Len(e) = 1 /\ e[1][1] \in MissingIds)))])

\* A profile whose default list has "f" and "g" lists "f" as missing and
\* carries an override for "f" that would change its configuration.
C11_Witness ==
  /\ featDone
  /\ featIn.features.isNull
  /\ featIn.mainType = "keyboard"
  /\ MissingIds = {"f"}
  /\ ConfigItems = << <<<<"f", {<<"b", 3>>}>>>> >>
  /\ IdsOf(featOut) = <<"g">>

\* The identifiers of the base list: the profile's feature list, one for
\* one, or the defaults of the category.
BaseIds ==
  IF featIn.features.isNull
  THEN IdsOf(getDefaultFeaturesFor(featIn.mainType))
  ELSE [i \in 1..Len(featIn.features.items) |-> featIn.features.items[i].name]

\* C12: the identifiers of the instance's descriptors are those of the base
\* list with exactly the identifiers of featuresMissing removed, in the base
\* order; no entry of featuresConfig adds, removes or reorders a descriptor.
C12_IdentifiersAreBaseMinusMissing ==
  featDone
    => /\ IdsOf(featOut) = SelectSeq(BaseIds, LAMBDA id : id \notin MissingIds)
       /\ \A j \in 1..Len(ConfigItems) : IdsOf(AfterEntry(j)) = IdsOf(BeforeEntry(j))
       /\ featOut = featSteps[Len(featSteps)]

\* A profile lists "g" then "f", removes "g", and has overrides for the
\* removed and for the present identifier.
C12_Witness ==
  /\ featDone
  /\ BaseIds = <<"g", "f">>
  /\ MissingIds = {"g"}
  /\ Len(ConfigItems) = 2
  /\ OneProperty(1)
  /\ OneProperty(2)
  /\ ConfigItems[1][1][1] = "g"
  /\ ConfigItems[2][1][1] = "f"
  /\ IdsOf(featOut) = <<"f">>

\* The configuration after equals the configuration before with exactly the
\* keys of override replaced by override's values.
Merged(before, override, after) ==
  /\ override \subseteq after
  /\ \A p \in before : (\A q \in override : q[1] # p[1]) => p \in after
  /\ \A p \in after : p \in override \/ p \in before

\* The first descriptor of a list with the identifier id, 0 when none has it.
FirstWith(features, id) ==
  IF \E k \in 1..Len(features) : features[k].featureIdentifier = id
  THEN CHOOSE k \in 1..Len(features) :
         /\ features[k].featureIdentifier = id
         /\ \A i \in 1..(k - 1) : features[i].featureIdentifier # id
  ELSE 0

\* C13: for each featuresConfig entry {featureIdentifier: override}, read as
\* the entry's first property, the descriptor with that identifier (the
\* first one, should the list repeat the identifier) ends, after the entry,
\* with its previous configuration in which exactly the keys of override
\* carry override's values and every other key is unchanged; every other
\* descriptor is unchanged; an entry with no property or whose identifier
\* matches no descriptor changes nothing.
C13_OverrideMerges ==
  featDone
    => \A j \in 1..Len(ConfigItems) :
         /\ Len(AfterEntry(j)) = Len(BeforeEntry(j))
         /\ ConfigItems[j] = <<>> => AfterEntry(j) = BeforeEntry(j)
         /\ ConfigItems[j] # <<>> =>
              \A k \in 1..Len(BeforeEntry(j)) :
                IF k = FirstWith(BeforeEntry(j), ConfigItems[j][1][1])
                THEN /\ AfterEntry(j)[k].featureIdentifier = ConfigItems[j][1][1]
                     /\ Merged(BeforeEntry(j)[k].configuration, ConfigItems[j][1][2],
                               AfterEntry(j)[k].configuration)
                ELSE AfterEntry(j)[k] = BeforeEntry(j)[k]

\* The configuration {a: 1, b: 2} of "f" was overridden with {b: 3} and ends
\* as {a: 1, b: 3}, next to an untouched "g".
C13_Witness ==
  /\ featDone
  /\ IdsOf(featSteps[2]) = <<"f", "g">>
  /\ featSteps[2][1].configuration = {<<"a", 1>>, <<"b", 2>>}
  /\ ConfigItems = << <<<<"f", {<<"b", 3>>}>>>> >>
  /\ featOut[1].configuration = {<<"a", 1>>, <<"b", 3>>}
  /\ featOut[2] = featSteps[2][2]

\* -------------------------------------------------- lifecycle claims
\* The positions in the calls of the last step at which f was called.
CallsOf(f) == {i \in 1..Len(ev.calls) : ev.calls[i][1] = f}

\* Found device i of the snapshot of the last refresh matches a profile.
Matches(i) ==
  LET pid == toIntProductId(ev.ret[i].productId)
  IN NumberIsFinite(pid) /\ ExpectedProfile(pid.n) # 0

\* C14: the promise of a non-throttled refresh settles, resolved or rejected,
\* only after every init() that refresh started has settled: when it settles
\* none of its init() promises is pending.
C14_SettlesAfterAllInits ==
  ev.op = "settle"
    => \A i \in 1..Len(ev.ret) : ev.ret[i].state # "pending"

\* C15: a non-throttled refresh calls init() on the instance of every
\* matching found device before it waits on any of them: when the call
\* returns its promise every such init() has been called and is pending, and
\* at no time does an init() wait for the init() of another device.
C15_InitsStartTogether ==
  /\ (ev.op = "refreshRazerDevices" /\ ev.outcome = "pending")
       => /\ \A i \in 1..Len(ev.ret) :
               Matches(i) => /\ MadeCall("init", i)
                             /\ inflight[ev.id].slots[i].state = "pending"
          /\ Cardinality(CallsOf("init")) =
               Cardinality({i \in 1..Len(ev.ret) : Matches(i)})
  /\ \A r \in 1..Len(inflight) : \A i \in 1..Len(inflight[r].slots) :
       inflight[r].slots[i].state \in {"null", "pending", "resolved", "rejected"}

\* The init() of the second device has resolved while the init() of the
\* first device of the same refresh is still pending.
C15_Witness ==
  /\ ev.op = "initResolve"
  /\ ev.ret = 2
  /\ inflight[ev.id].status = "pending"
  /\ inflight[ev.id].slots[1].state = "pending"
  /\ inflight[ev.id].slots[2].state = "resolved"

\* C16: a non-throttled refresh that starts with an active set, on a manager
\* that holds its hardware layer, calls addon.closeAllDevices first and once;
\* addon.getAllDevices and every init() come after it, and when
\* getAllDevices has been called the active set has been cleared.
C16_TeardownBeforeEnumeration ==
  (/\ ev.op = "refreshRazerDevices"
   /\ ev.outcome # "throttled"
   /\ ~ev.before.isNull
   /\ addon # "null")
    => /\ CallsOf("closeAllDevices") = {1}
       /\ \A i \in CallsOf("getAllDevices") \cup CallsOf("init") : i > 1
       /\ \A i \in CallsOf("init") : \A j \in CallsOf("getAllDevices") : j < i
       /\ MadeCall("getAllDevices", 0) => activeRazerDevices.isNull

\* A refresh found an active set of one instance, tore it down, queried the
\* hardware layer and started one init().
C16_Witness ==
  /\ ev.op = "refreshRazerDevices"
  /\ ev.outcome = "pending"
  /\ ~ev.before.isNull
  /\ Len(ev.before.devices) = 1
  /\ ev.calls = <<Call("closeAllDevices", 0), Call("getAllDevices", 0), Call("init", 1)>>
  /\ activeRazerDevices.isNull

\* C17: destroy() calls destroy() exactly once on every instance of the
\* active set and on nothing else, all of these before addon.closeAllDevices;
\* a destroy() that returns has called closeAllDevices once for a set that
\* was not null, has released the addon and left the active set null; the
\* addon is not released when closeAllDevices threw.
C17_DestroyOrder ==
  ev.op = "destroy"
    => /\ Cardinality(CallsOf("destroy")) =
            (IF ev.before.isNull THEN 0 ELSE Len(ev.before.devices))
       /\ ~ev.before.isNull
            => \A k \in 1..Len(ev.before.devices) :
                 Cardinality({i \in 1..Len(ev.calls) :
                    ev.calls[i] = Call("destroy", ev.before.devices[k].internalId)}) = 1
       /\ \A i \in CallsOf("destroy") : \A j \in CallsOf("closeAllDevices") : i < j
       /\ ev.outcome = "ok"
            => /\ addon = "null"
               /\ activeRazerDevices.isNull
               /\ Cardinality(CallsOf("closeAllDevices")) =
                    (IF ev.before.isNull THEN 0 ELSE 1)
       /\ (ev.outcome = "throw" /\ MadeCall("closeAllDevices", 0)) => addon # "null"

\* destroy() returned on an active set of two instances.
C17_Witness ==
  /\ ev.op = "destroy"
  /\ ev.outcome = "ok"
  /\ ~ev.before.isNull
  /\ Len(ev.before.devices) = 2
  /\ Len(ev.calls) = 3
  /\ addon = "null"
  /\ activeRazerDevices.isNull

\* C18: a non-throttled refresh in which addon.closeAllDevices or
\* addon.getAllDevices throws returns a rejected promise and starts no
\* init(); the active set is null when the enumeration failed and is the
\* previous set, unchanged, when the close failed.
C18_HardwareFailureRejects ==
  (ev.op = "refreshRazerDevices" /\ ev.outcome = "rejected")
    => /\ inflight[ev.id].status = "rejected"
       /\ inflight[ev.id].slots = <<>>
       /\ CallsOf("init") = {}
       /\ IF MadeCall("getAllDevices", 0)
          THEN activeRazerDevices.isNull
          ELSE activeRazerDevices = ev.before

\* closeAllDevices threw in a refresh that started with two active
\* instances: the promise is rejected and the two are still the active set.
C18_Witness ==
  /\ ev.op = "refreshRazerDevices"
  /\ ev.outcome = "rejected"
  /\ ev.calls = <<Call("closeAllDevices", 0)>>
  /\ ~activeRazerDevices.isNull
  /\ Len(activeRazerDevices.devices) = 2
  /\ inflight[ev.id].status = "rejected"

\* C19: when two non-throttled refreshes have both resolved, the active set
\* is, from the moment the second of them settles, the result of the one
\* that started later, whatever the order in which they settle.
C19_LaterRefreshWins ==
  (/\ ev.op = "settle"
   /\ Len(inflight) = 2
   /\ inflight[1].status = "resolved"
   /\ inflight[2].status = "resolved")
    => /\ ~activeRazerDevices.isNull
       /\ \A k \in 1..Len(activeRazerDevices.devices) :
            activeRazerDevices.devices[k].obj[1] = 2
       /\ \A i \in 1..Len(inflight[2].slots) :
            inflight[2].slots[i].state = "resolved"
              => InActive(inflight[2].slots[i].device)

\* C20: whenever some init() has been called since the last
\* addon.closeAllDevices call, a closeDevices() or destroy() call calls
\* addon.closeAllDevices.
C20_TeardownReleasesHardware ==
  (ev.op \in {"closeDevices", "destroy"} /\ ev.openedBefore)
    => MadeCall("closeAllDevices", 0)

====
